---------------------------- MODULE Spec2Model ----------------------------
(***************************************************************************)
(* A model of the KePub container of calibre-kobo-driver: the span         *)
(* injector, the div wrapper, the thread fan-out that runs them over the   *)
(* content documents, and the entry point modify_epub.                     *)
(*                                                                         *)
(* A text run is a sequence of one-character strings; Python's None is the *)
(* value NoText.  An element is a record with the fields lxml gives it:    *)
(* tag, attributes, text, children and tail.                               *)
(***************************************************************************)
EXTENDS Integers, Sequences, FiniteSets, TLC

VARIABLES
    names,              \* the content documents, html_names()
    parsed,             \* name -> parsed tree (the container's parsed cache)
    disk,               \* name -> serialized bytes of the member's file
    dirtied,            \* the container's dirty set
    paragraph_counter,  \* name -> paragraph index, defaultdict(lambda: 1)
    members,            \* the other member names of the archive (name_path_map)
    last,               \* the last call made on the container and its outcome
    run,                \* one call of _append_kobo_spans_from_text on a fresh node
    mainPc,             \* where the thread that owns the container is
    batch,              \* the current call of __run_async_over_content
    threads,            \* name -> the threading.Thread started for that document
    device,             \* the device driver, the archive it was given and its calls
    manifest            \* the items of the OPF manifest, in document order

vars == <<names, parsed, disk, dirtied, paragraph_counter, members, last, run,
         mainPc, batch, threads, device, manifest>>

threadVars == <<mainPc, batch, threads>>

---------------------------------------------------------------------------
(* Bounds *)

MaxLen == 4         \* longest enumerated text run
MaxP == 2           \* largest paragraph index a text run starts from
MaxKids == 2        \* most children of the body of an enumerated document
NumDocs == 2        \* content documents of the archive a batch runs over

---------------------------------------------------------------------------
(* Characters and text runs *)

NoText == <<"None">>

WhitespaceChars == {" ", "NL", "TAB"}
TerminalChars == {".", "!", "?", ":"}
QuoteChars == {"'", "DQ", "LDQ", "RDQ", "LSQ", "RSQ", "ELLIPSIS"}

Alphabet == {"a", " ", "NL", ".", "'"}

HelloWorldGoodbye ==
    <<"H", "e", "l", "l", "o", ",", " ", "W", "o", "r", "l", "d", "!", " ",
      "G", "o", "o", "d", "b", "y", "e", ".">>

GifSentence == <<"NL", "NL", " ", "G", "I", "F", " ", "i", "t", "'", "s", ".", "NL", " ">>

ByMe == <<"NL", " ", "b", "y", "NL", "m", "e", ".", " ", "NL", " ">>

RECURSIVE TextsOfLen(_)
TextsOfLen(n) ==
    IF n = 0 THEN {<<>>}
    ELSE {Append(t, c) : t \in TextsOfLen(n - 1), c \in Alphabet}

BoundedTexts == UNION {TextsOfLen(n) : n \in 0..MaxLen}

\* a text node of the tests that holds no sentence terminal
Copyright == <<"C", "o", "p", "y", "r", "i", "g", "h", "t">>

SampleTexts == BoundedTexts \cup {NoText, HelloWorldGoodbye, GifSentence, ByMe, Copyright}

Sub(t, from, to) == IF from > to THEN <<>> ELSE SubSeq(t, from, to)

RECURSIVE Concat(_)
Concat(ss) == IF ss = <<>> THEN <<>> ELSE Head(ss) \o Concat(Tail(ss))

\* text.strip() == ""
IsBlank(t) == \A i \in 1..Len(t) : t[i] \in WhitespaceChars

---------------------------------------------------------------------------
\* TEXT_SPLIT_RE, matched as Python's re matches it: leading whitespace
\* (greedy), then lazily any characters except a newline up to the first
\* terminal [.!?:] on the line, one optional closing quote, trailing
\* whitespace (greedy).

RECURSIVE SkipWhitespace(_, _)
SkipWhitespace(t, i) ==
    IF i <= Len(t) /\ t[i] \in WhitespaceChars THEN SkipWhitespace(t, i + 1) ELSE i

\* the index of the first terminal at or after j with no newline before it, 0 if none
RECURSIVE FirstTerminal(_, _)
FirstTerminal(t, j) ==
    IF j > Len(t) THEN 0
    ELSE IF t[j] = "NL" THEN 0
    ELSE IF t[j] \in TerminalChars THEN j
    ELSE FirstTerminal(t, j + 1)

\* one past the end of the match that starts at i, 0 if the pattern does not match there
MatchEnd(t, i) ==
    LET k == FirstTerminal(t, SkipWhitespace(t, i))
        q == IF k + 1 <= Len(t) /\ t[k + 1] \in QuoteChars THEN k + 2 ELSE k + 1
    IN  IF k = 0 THEN 0 ELSE SkipWhitespace(t, q)

\* the leftmost position at or after pos where the pattern matches, 0 if none
RECURSIVE SearchFrom(_, _)
SearchFrom(t, pos) ==
    IF pos > Len(t) THEN 0
    ELSE IF MatchEnd(t, pos) # 0 THEN pos
    ELSE SearchFrom(t, pos + 1)

\* TEXT_SPLIT_RE.split(text): the unmatched piece, the matched group, ..., the rest
RECURSIVE SplitFrom(_, _)
SplitFrom(t, pos) ==
    LET i == SearchFrom(t, pos)
    IN  IF i = 0 THEN <<Sub(t, pos, Len(t))>>
        ELSE <<Sub(t, pos, i - 1), Sub(t, i, MatchEnd(t, i) - 1)>>
                 \o SplitFrom(t, MatchEnd(t, i))

TextSplit(t) == SplitFrom(t, 1)

KeepGroup_Terminated(g) == g # <<>> /\ \E i \in 1..Len(g) : g[i] \in TerminalChars

\* groups = [g for g in groups if g != ""]
KeepGroup(g) == g # <<>>

Groups(t) == SelectSeq(TextSplit(t), KeepGroup)

---------------------------------------------------------------------------
(* Elements *)

\* an id attribute: "kobo.<p>.<s>", or a plain name (pre is the whole value, "" is no id)
KoboId(p, s) == [pre |-> "kobo.", p |-> p, s |-> s]
PlainId(n) == [pre |-> n, p |-> 0, s |-> 0]
NoId == PlainId("")

\* the attributes of an element: id, class, and the href or src of a link or script
Attrs(id, class) == [id |-> id, class |-> class, ref |-> <<>>]
NoAttrs == Attrs(NoId, "")

Elem(tag, attrs, text, kids, tail) ==
    [kind |-> "elem", tag |-> tag, attrs |-> attrs, text |-> text, kids |-> kids, tail |-> tail]

\* etree._Comment and etree._ProcessingInstruction
CommentNode(kind, tail) ==
    [kind |-> kind, tag |-> "", attrs |-> NoAttrs, text |-> NoText, kids |-> <<>>, tail |-> tail]

SKIPPED_TAGS ==
    {"button", "circle", "defs", "figcaption", "figure", "g", "input", "math", "path",
     "polygon", "pre", "rect", "script", "style", "svg", "use", "video"}

SPECIAL_TAGS == {"img"}

\* span[@class="koboSpan" or starts-with(@id, "kobo.")]
IsKoboSpan(n) ==
    /\ n.kind = "elem"
    /\ n.tag = "span"
    /\ (n.attrs.class = "koboSpan" \/ n.attrs.id.pre = "kobo.")

\* the elements of a subtree in document order, the subtree's root first
RECURSIVE Descendants(_)
Descendants(n) == <<n>> \o Concat([i \in 1..Len(n.kids) |-> Descendants(n.kids[i])])

CountWhere(seq, Test(_)) == Len(SelectSeq(seq, Test))

---------------------------------------------------------------------------
(* The span injector *)

FirstSegment_Zero == 0

\* segment_counter = 1
FirstSegment == 1

\* etree.Element("span", attrib={"class": "koboSpan", "id": "kobo.{0}.{1}"}), span.text = g
TextSpan(p, s, g) == Elem("span", Attrs(KoboId(p, s), "koboSpan"), g, <<>>, NoText)

CanAddSpans_NoStrip(text) == text # NoText /\ text # <<>>

\* the two early returns of _append_kobo_spans_from_text: "not text" and text.strip() == ""
CanAddSpans(text) == text # NoText /\ text # <<>> /\ ~IsBlank(text)

\* _append_kobo_spans_from_text(node, text, name) on a node whose children are kids
AppendKoboSpansFromText(kids, text, p) ==
    IF ~CanAddSpans(text) THEN [ok |-> FALSE, kids |-> kids]
    ELSE LET groups == Groups(text)
         IN  [ok |-> TRUE,
              kids |-> kids \o [i \in 1..Len(groups) |->
                                   TextSpan(p, FirstSegment + i - 1, groups[i])]]

RestoredText_Dropped(text, ok) == NoText

\* node.text after the text has been offered to the splitter: restored when no span was added
RestoredText(text, ok) == IF ok THEN NoText ELSE text

\* self.paragraph_counter[name] += 1 when spans were added
Advance(p, ok) == IF ok THEN p + 1 ELSE p

\* node[-1].tail = child_tail
SetLastTail(kids, tail) == [kids EXCEPT ![Len(kids)].tail = tail]

IsSkipped(n) == n.tag \in SKIPPED_TAGS

IsSpecial(n) == n.tag \in SPECIAL_TAGS

\* the span that wraps a special element
WrapSpan(p, n) == Elem("span", Attrs(KoboId(p, 1), "koboSpan"), NoText, <<n>>, NoText)

\* the nodes _add_kobo_spans_to_node returns without descending into them
ReturnsEarly(node) == node.kind # "elem" \/ IsSkipped(node) \/ IsSpecial(node)

\* what it returns for them: a comment or processing instruction without its tail,
\* a skipped element as it is, a special element inside a new span
EarlyReturn(node, p) ==
    IF node.kind # "elem" THEN [node EXCEPT !.tail = NoText]
    ELSE IF IsSkipped(node) THEN node
    ELSE WrapSpan(p, node)

\* node.clear(), the attributes restored, and the node's text offered to the splitter
ClearedWithText(node, p) ==
    LET t == AppendKoboSpansFromText(<<>>, node.text, p)
    IN  [node |-> [node EXCEPT !.text = RestoredText(node.text, t.ok),
                               !.kids = t.kids,
                               !.tail = NoText],
         p |-> Advance(p, t.ok)]

AppendChild_CommentTailDropped(acc, child, child_tail, p) ==
    LET appended == Append(acc, child)
        t == AppendKoboSpansFromText(appended, child_tail, p)
    IN  [kids |-> IF child_tail = NoText \/ child.kind # "elem" THEN appended
                  ELSE IF t.ok THEN t.kids
                  ELSE SetLastTail(appended, child_tail),
         p |-> IF child.kind # "elem" THEN p ELSE Advance(p, t.ok)]

\* node.append(child) for a processed child, then its saved tail offered to the splitter
AppendChild(acc, child, child_tail, p) ==
    LET appended == Append(acc, child)
        t == AppendKoboSpansFromText(appended, child_tail, p)
    IN  [kids |-> IF child_tail = NoText THEN appended
                  ELSE IF t.ok THEN t.kids
                  ELSE SetLastTail(appended, child_tail),
         p |-> Advance(p, t.ok)]

RECURSIVE AddKoboSpansToNode(_, _), AddSpansToChildren(_, _, _)

\* _add_kobo_spans_to_node(node, name) with paragraph_counter[name] = p;
\* gives the returned node and the counter afterwards
AddKoboSpansToNode(node, p) ==
    IF ReturnsEarly(node) THEN [node |-> EarlyReturn(node, p), p |-> p]
    ELSE LET own == ClearedWithText(node, p)
             c == AddSpansToChildren(node.kids, own.node.kids, own.p)
         IN  [node |-> [own.node EXCEPT !.kids = c.kids], p |-> c.p]

\* the loop over node_children: acc are the children appended to node so far
AddSpansToChildren(children, acc, p) ==
    IF children = <<>> THEN [kids |-> acc, p |-> p]
    ELSE LET child == Head(children)
             r == AddKoboSpansToNode([child EXCEPT !.tail = NoText], p)
             a == AppendChild(acc, r.node, child.tail, r.p)
         IN  AddSpansToChildren(Tail(children), a.kids, a.p)

---------------------------------------------------------------------------
(* Documents, their serialization, and what XPath counts in them *)

Doc(head, body) == [head |-> head, body |-> body]

\* every element, comment and processing instruction of a document, in document order
AllNodes(d) ==
    Concat([i \in 1..Len(d.head) |-> Descendants(d.head[i])]) \o Descendants(d.body)

\* count(.//xhtml:span[@class="koboSpan" or starts-with(@id, "kobo.")])
KoboSpanCount(d) == CountWhere(AllNodes(d), IsKoboSpan)

IsDiv(n) == n.kind = "elem" /\ n.tag = "div"
IsP(n) == n.kind = "elem" /\ n.tag = "p"
IsBookInner(n) == IsDiv(n) /\ n.attrs.id = PlainId("book-inner")
IsBookColumns(n) == IsDiv(n) /\ n.attrs.id = PlainId("book-columns")

\* count(//xhtml:div[@id="book-inner"]), count(//xhtml:div), count(//xhtml:p)
KoboDivCount(d) == CountWhere(AllNodes(d), IsBookInner)
DivCount(d) == CountWhere(AllNodes(d), IsDiv)
PCount(d) == CountWhere(AllNodes(d), IsP)

Tok(t, v, attrs) == [t |-> t, v |-> v, attrs |-> attrs]

TextToks(text) ==
    IF text = NoText THEN <<>> ELSE [i \in 1..Len(text) |-> Tok("chr", text[i], NoAttrs)]

\* the bytes a subtree is written as: its tags, attributes and text in document order
RECURSIVE SerializeNode(_)
SerializeNode(n) ==
    (IF n.kind = "elem"
     THEN <<Tok("open", n.tag, n.attrs)>> \o TextToks(n.text)
              \o Concat([i \in 1..Len(n.kids) |-> SerializeNode(n.kids[i])])
              \o <<Tok("close", n.tag, NoAttrs)>>
     ELSE <<Tok(n.kind, "", NoAttrs)>>)
    \o TextToks(n.tail)

Serialize(d) ==
    Concat([i \in 1..Len(d.head) |-> SerializeNode(d.head[i])]) \o SerializeNode(d.body)

---------------------------------------------------------------------------
(* The div wrapper *)

\* __add_kobo_divs_to_body: body.clear(), the attributes restored, the text and the
\* children (each with its tail) moved into book-inner inside book-columns
MovedChildren_TailsLost(kids) == [i \in 1..Len(kids) |-> [kids[i] EXCEPT !.tail = NoText]]

\* the loop over body_children: each child's tail is saved, cleared for the append
\* and set again on the appended child
MovedChildren(kids) == [i \in 1..Len(kids) |-> [kids[i] EXCEPT !.tail = kids[i].tail]]

WrapperDivs(text, kids) ==
    LET inner_div == Elem("div", Attrs(PlainId("book-inner"), ""), text,
                          MovedChildren(kids), NoText)
    IN  Elem("div", Attrs(PlainId("book-columns"), ""), NoText, <<inner_div>>, NoText)

AddKoboDivsToBody(body) ==
    [body EXCEPT !.text = NoText, !.kids = <<WrapperDivs(body.text, body.kids)>>, !.tail = NoText]

---------------------------------------------------------------------------
(* The enumerated documents *)

WS == <<" ", "NL">>
S1 == <<"a", ".">>
S2 == <<"a", ".", " ", "b", "!">>

Img(tail) == Elem("img", NoAttrs, NoText, <<>>, tail)
Em == Elem("em", NoAttrs, S1, <<>>, S1)
P(text, kids) == Elem("p", Attrs(NoId, "calibre1"), text, kids, NoText)
OldSpan == Elem("span", Attrs(KoboId(1, 1), "koboSpan"), S1, <<>>, NoText)

Leaves ==
    {Img(t) : t \in {NoText, WS, S1}}
        \cup {CommentNode(k, t) : k \in {"comment", "pi"}, t \in {NoText, S1}}
        \cup {OldSpan}

Blocks ==
    {P(t, k) : t \in {NoText, WS, S2}, k \in {<<>>, <<Em>>, <<Img(S1)>>}}
        \cup {Elem("div", NoAttrs, NoText, k, NoText) : k \in {<<>>, <<P(S1, <<>>)>>}}
        \cup {Elem("pre", Attrs(NoId, "code"), S1, k, NoText) : k \in {<<>>, <<Em>>}}

Units == Leaves \cup Blocks

RECURSIVE SeqsOfLen(_, _)
SeqsOfLen(S, n) ==
    IF n = 0 THEN {<<>>} ELSE {Append(q, x) : q \in SeqsOfLen(S, n - 1), x \in S}

SeqsUpTo(S, n) == UNION {SeqsOfLen(S, k) : k \in 0..n}

Body(text, kids, tail) == Elem("body", Attrs(NoId, "main"), text, kids, tail)

BodyTextAndTail == {<<NoText, NoText>>, <<NoText, WS>>, <<S1, WS>>}

PlainDocs ==
    {Doc(<<>>, Body(tt[1], k, tt[2])) : tt \in BodyTextAndTail, k \in SeqsUpTo(Units, MaxKids)}

\* documents that come with the two wrapper divs, as a KePub does
WrappedDocs ==
    {Doc(<<>>, Body(NoText, <<WrapperDivs(tt[1], k)>>, tt[2])) :
        tt \in BodyTextAndTail, k \in SeqsUpTo(Units, MaxKids - 1)}

Docs == PlainDocs \cup WrappedDocs

---------------------------------------------------------------------------
(* The container *)

OpfName == "content.opf"

\* a member name as its characters
KoboJs == <<"k", "o", "b", "o", ".", "j", "s">>
TrackerJs == <<"j", "s", "/", "K", "o", "b", "o", "T", ".", "j", "s">>
StyleCss == <<"s", ".", "c", "s", "s">>
MemberNames == {KoboJs, TrackerJs, StyleCss}

Lower(c) == IF c = "K" THEN "k" ELSE IF c = "O" THEN "o" ELSE IF c = "B" THEN "b"
            ELSE IF c = "J" THEN "j" ELSE IF c = "S" THEN "s" ELSE c

HasAt(n, i, word) ==
    /\ i >= 1
    /\ i + Len(word) - 1 <= Len(n)
    /\ \A k \in 1..Len(word) : Lower(n[i + k - 1]) = word[k]

\* KOBO_JS_RE.match(name): "kobo" somewhere, ".js" at the end, case ignored
MatchesKoboJs(n) ==
    /\ HasAt(n, Len(n) - 2, <<".", "j", "s">>)
    /\ \E i \in 1..Len(n) : HasAt(n, i, <<"k", "o", "b", "o">>) /\ i + 4 <= Len(n) - 2

\* no device driver in use
NoDevice == [op |-> "none"]

\* what a call leaves behind for the caller, with the state it started from
Call(op, name, result) ==
    [op |-> op, name |-> name, result |-> result,
     before |-> IF name \in names THEN parsed[name] ELSE Doc(<<>>, Body(NoText, <<>>, NoText)),
     diskBefore |-> IF name \in names THEN disk[name] ELSE <<>>,
     pBefore |-> IF name \in names THEN paragraph_counter[name] ELSE 0,
     membersBefore |-> members,
     opts |-> {},
     applied |-> IF result = "returned" THEN last.applied \cup {op} ELSE last.applied]

NoCall == [op |-> "none", name |-> "", result |-> "",
           before |-> Doc(<<>>, Body(NoText, <<>>, NoText)), diskBefore |-> <<>>,
           pBefore |-> 0, membersBefore |-> {}, opts |-> {}, applied |-> {}]

\* commit_item(name, keep_parsed=True) for every name of a set: the parsed tree is
\* serialized to the member's file and the name leaves the dirty set
Committed(trees, files, toCommit) ==
    [n \in DOMAIN files |-> IF n \in toCommit THEN Serialize(trees[n]) ELSE files[n]]

ShouldSkipSpans_MoreThanOne(d) == KoboSpanCount(d) > 1

\* kobo_span_count > 0
ShouldSkipSpans(d) == KoboSpanCount(d) > 0

\* add_kobo_spans(name), called from the thread that owns the container
AddKoboSpans(name) ==
    /\ name \in names
    /\ IF ShouldSkipSpans(parsed[name])
       THEN /\ last' = Call("add_kobo_spans", name, "raised")
            /\ UNCHANGED <<parsed, disk, dirtied, paragraph_counter>>
       ELSE LET r == AddKoboSpansToNode(parsed[name].body, paragraph_counter[name])
                trees == [parsed EXCEPT ![name].body = r.node]
            IN  /\ parsed' = trees
                /\ paragraph_counter' = [paragraph_counter EXCEPT ![name] = r.p]
                \* self.replace(name, root); self.flush_cache()
                /\ disk' = Committed(trees, disk, (dirtied \cup {name}) \cap names)
                /\ dirtied' = {}
                /\ last' = Call("add_kobo_spans", name, "returned")
    /\ UNCHANGED <<manifest, device, names, members, run, threadVars>>

ShouldSkipDivs_AtLeast(d) == KoboDivCount(d) > 0 \/ DivCount(d) >= PCount(d)

\* kobo_div_count > 0, or div_count > p_count
ShouldSkipDivs(d) == KoboDivCount(d) > 0 \/ DivCount(d) > PCount(d)

\* add_kobo_divs(name), called from the thread that owns the container
AddKoboDivs(name) ==
    /\ name \in names
    /\ IF ShouldSkipDivs(parsed[name])
       THEN /\ last' = Call("add_kobo_divs", name, "raised")
            /\ UNCHANGED <<parsed, disk, dirtied>>
       ELSE LET trees == [parsed EXCEPT ![name].body = AddKoboDivsToBody(parsed[name].body)]
            IN  /\ parsed' = trees
                /\ disk' = Committed(trees, disk, (dirtied \cup {name}) \cap names)
                /\ dirtied' = {}
                /\ last' = Call("add_kobo_divs", name, "returned")
    /\ UNCHANGED <<manifest, device, names, paragraph_counter, members, run, threadVars>>

---------------------------------------------------------------------------
(* The threads of __run_async_over_content *)

NoThread == [func |-> "none", pc |-> "none", stack |-> <<>>, flushing |-> {}]

NoBatch == [func |-> "none", state |-> "idle", diskBefore |-> <<>>, parsedBefore |-> <<>>,
            countersBefore |-> <<>>]

CounterKey_Shared(name) == "a.html"

\* self.paragraph_counter[name]
CounterKey(name) == name

Counter(name) == paragraph_counter[CounterKey(name)]

SetCounter(name, p) == [paragraph_counter EXCEPT ![CounterKey(name)] = p]

\* threads = [Thread(target=func, args=arg) for arg in args]; [th.start() for th in threads]
StartBatch(func) ==
    /\ threads' = [n \in names |-> [func |-> func, pc |-> "start", stack |-> <<>>, flushing |-> {}]]
    /\ batch' = [func |-> func, state |-> "running", diskBefore |-> disk,
                 parsedBefore |-> parsed, countersBefore |-> paragraph_counter]

\* [th.join() for th in threads]: a thread ends when its target returns or raises
Joined == \A n \in names : threads[n].pc \in {"done", "failed"}

\* a frame of _add_kobo_spans_to_node: the node being refilled, the children still to
\* process, and the tail the caller saved before the call
Frame(node, todo, tailAfter) == [node |-> node, todo |-> todo, tailAfter |-> tailAfter]

Top(stack) == stack[Len(stack)]

SetTop(stack, frame) == [stack EXCEPT ![Len(stack)] = frame]

\* add_kobo_spans(name) up to the call on the body: the count, the raise, the body's text
SpanThreadStart(n) ==
    /\ threads[n].func = "add_kobo_spans"
    /\ threads[n].pc = "start"
    /\ IF ShouldSkipSpans(parsed[n])
       THEN /\ threads' = [threads EXCEPT ![n].pc = "failed"]
            /\ UNCHANGED paragraph_counter
       ELSE LET own == ClearedWithText(parsed[n].body, Counter(n))
            IN  /\ threads' = [threads EXCEPT
                       ![n].pc = "walk",
                       ![n].stack = <<Frame(own.node, parsed[n].body.kids, NoText)>>]
                /\ paragraph_counter' = SetCounter(n, own.p)
    /\ UNCHANGED <<manifest, device, names, parsed, disk, dirtied, members, last, run, mainPc, batch>>

\* one turn of the loop over node_children for a child that is returned early:
\* the child is appended and its tail offered to the splitter
SpanThreadLeaf(n) ==
    /\ threads[n].pc = "walk"
    /\ Top(threads[n].stack).todo # <<>>
    /\ LET top == Top(threads[n].stack)
           child == Head(top.todo)
           bare == [child EXCEPT !.tail = NoText]
           a == AppendChild(top.node.kids, EarlyReturn(bare, Counter(n)), child.tail, Counter(n))
       IN  /\ ReturnsEarly(child)
           /\ threads' = [threads EXCEPT ![n].stack =
                  SetTop(@, Frame([top.node EXCEPT !.kids = a.kids], Tail(top.todo), top.tailAfter))]
           /\ paragraph_counter' = SetCounter(n, a.p)
    /\ UNCHANGED <<manifest, device, names, parsed, disk, dirtied, members, last, run, mainPc, batch>>

\* the recursive call for any other child: a new frame, the child's text offered to the splitter
SpanThreadDescend(n) ==
    /\ threads[n].pc = "walk"
    /\ Top(threads[n].stack).todo # <<>>
    /\ LET top == Top(threads[n].stack)
           child == Head(top.todo)
           own == ClearedWithText([child EXCEPT !.tail = NoText], Counter(n))
       IN  /\ ~ReturnsEarly(child)
           /\ threads' = [threads EXCEPT ![n].stack =
                  Append(SetTop(@, Frame(top.node, Tail(top.todo), top.tailAfter)),
                         Frame(own.node, child.kids, child.tail))]
           /\ paragraph_counter' = SetCounter(n, own.p)
    /\ UNCHANGED <<manifest, device, names, parsed, disk, dirtied, members, last, run, mainPc, batch>>

\* the return of a recursive call: the node is appended to its parent, its tail offered
\* to the splitter
SpanThreadReturn(n) ==
    /\ threads[n].pc = "walk"
    /\ Len(threads[n].stack) > 1
    /\ Top(threads[n].stack).todo = <<>>
    /\ LET stack == threads[n].stack
           top == Top(stack)
           parent == stack[Len(stack) - 1]
           a == AppendChild(parent.node.kids, top.node, top.tailAfter, Counter(n))
       IN  /\ threads' = [threads EXCEPT ![n].stack =
                  SetTop(SubSeq(stack, 1, Len(stack) - 1),
                         Frame([parent.node EXCEPT !.kids = a.kids], parent.todo, parent.tailAfter))]
           /\ paragraph_counter' = SetCounter(n, a.p)
    /\ UNCHANGED <<manifest, device, names, parsed, disk, dirtied, members, last, run, mainPc, batch>>

\* the call on the body has returned: self.replace(name, root)
SpanThreadReplace(n) ==
    /\ threads[n].pc = "walk"
    /\ Len(threads[n].stack) = 1
    /\ Top(threads[n].stack).todo = <<>>
    /\ parsed' = [parsed EXCEPT ![n].body = Top(threads[n].stack).node]
    /\ dirtied' = dirtied \cup {n}
    /\ threads' = [threads EXCEPT ![n].pc = "flush", ![n].stack = <<>>]
    /\ UNCHANGED <<manifest, device, names, disk, paragraph_counter, members, last, run, mainPc, batch>>

\* add_kobo_divs(name) in a thread, up to self.replace(name, root)
DivThread(n) ==
    /\ threads[n].func = "add_kobo_divs"
    /\ threads[n].pc = "start"
    /\ IF ShouldSkipDivs(parsed[n])
       THEN /\ threads' = [threads EXCEPT ![n].pc = "failed"]
            /\ UNCHANGED <<parsed, dirtied>>
       ELSE /\ parsed' = [parsed EXCEPT ![n].body = AddKoboDivsToBody(parsed[n].body)]
            /\ dirtied' = dirtied \cup {n}
            /\ threads' = [threads EXCEPT ![n].pc = "flush"]
    /\ UNCHANGED <<manifest, device, names, disk, paragraph_counter, members, last, run, mainPc, batch>>

\* flush_cache() inside the thread: one more thread for every name now in self.dirtied
ThreadFlush(n) ==
    /\ threads[n].pc = "flush"
    /\ threads' = [threads EXCEPT ![n].pc = "join", ![n].flushing = dirtied]
    /\ UNCHANGED <<manifest, device, names, parsed, disk, dirtied, paragraph_counter, members, last, run,
                   mainPc, batch>>

\* __flush_cache_impl(m) in a thread started by the flush of n
ThreadCommit(n, m) ==
    /\ threads[n].pc = "join"
    /\ m \in threads[n].flushing
    /\ disk' = Committed(parsed, disk, {m} \cap names)
    /\ dirtied' = dirtied \ {m}
    /\ threads' = [threads EXCEPT ![n].flushing = @ \ {m}]
    /\ UNCHANGED <<manifest, device, names, parsed, paragraph_counter, members, last, run, mainPc, batch>>

\* the flush threads are joined and the target returns
ThreadDone(n) ==
    /\ threads[n].pc = "join"
    /\ threads[n].flushing = {}
    /\ threads' = [threads EXCEPT ![n].pc = "done"]
    /\ UNCHANGED <<manifest, device, names, parsed, disk, dirtied, paragraph_counter, members, last, run,
                   mainPc, batch>>

ConvertOrder_DivsFirst == <<"add_kobo_divs", "add_kobo_spans">>

\* convert(): the batch over add_kobo_spans, then the batch over add_kobo_divs
ConvertOrder == <<"add_kobo_spans", "add_kobo_divs">>

\* convert(): self.__run_async_over_content(self.add_kobo_spans)
ConvertSpans ==
    /\ mainPc = "idle"
    /\ StartBatch(ConvertOrder[1])
    /\ mainPc' = "spans"
    /\ UNCHANGED <<manifest, device, names, parsed, disk, dirtied, paragraph_counter, members, last, run>>

\* the joins return: __run_async returns to its caller, whatever the threads did
BatchReturns ==
    /\ mainPc \in {"spans", "divs"}
    /\ batch.state = "running"
    /\ Joined
    /\ batch' = [batch EXCEPT !.state = "returned"]
    /\ UNCHANGED <<manifest, device, names, parsed, disk, dirtied, paragraph_counter, members, last, run,
                   mainPc, threads>>

\* convert(): self.__run_async_over_content(self.add_kobo_divs)
ConvertDivs ==
    /\ mainPc = "spans"
    /\ batch.state = "returned"
    /\ StartBatch(ConvertOrder[2])
    /\ mainPc' = "divs"
    /\ UNCHANGED <<manifest, device, names, parsed, disk, dirtied, paragraph_counter, members, last, run>>

\* convert() returns
ConvertReturns ==
    /\ mainPc = "divs"
    /\ batch.state = "returned"
    /\ mainPc' = "done"
    /\ last' = Call("convert", "", "returned")
    /\ UNCHANGED <<manifest, device, names, parsed, disk, dirtied, paragraph_counter, members, run,
                   batch, threads>>

\* modify_epub(container, filename, metadata, opts) on a KEPubContainer.  cover: the
\* cover item is found without the cover-image property, so the OPF is dirtied.
\* At line 193 container.forced_cleanup() is called without the name that
\* KEPubContainer.forced_cleanup(self, name) requires: Python raises TypeError there
\* and modify_epub ends before any later step.
ModifyEpub(cover, extended) ==
    /\ mainPc = "idle"
    /\ dirtied' = IF cover THEN dirtied \cup {OpfName} ELSE dirtied
    /\ last' = [Call("modify_epub", "", "raised") EXCEPT
                  !.opts = IF extended THEN {"extended_kepub_features"} ELSE {}]
    /\ mainPc' = "done"
    /\ UNCHANGED <<manifest, device, names, parsed, disk, paragraph_counter, members, run, batch, threads>>

---------------------------------------------------------------------------
(* The manifest and the content documents it names *)

HTML_MIMETYPES == {"application/xhtml+xml", "text/html"}

Item(href, mt) == [href |-> href, mt |-> mt]

\* os.path.normpath on a relative path given as its segments: "." is dropped and ".."
\* removes the segment before it
RECURSIVE NormPath(_, _)
NormPath(done, segs) ==
    IF segs = <<>> THEN done
    ELSE IF Head(segs) = "." THEN NormPath(done, Tail(segs))
    ELSE IF Head(segs) = ".." /\ done # <<>> /\ done[Len(done)] # ".."
         THEN NormPath(SubSeq(done, 1, Len(done) - 1), Tail(segs))
    ELSE NormPath(Append(done, Head(segs)), Tail(segs))

\* os.path.join(os.path.dirname(self.opf_name), href), normalised; the OPF is at the
\* root of the archive, and the normal forms of the hrefs used here have one segment
HrefToName(href) == NormPath(<<>>, href)[1]

IsHtmlItem(item) == item.mt \in HTML_MIMETYPES

\* html_names(): one name per manifest item with an HTML media type, in document order
HtmlNames(items) ==
    LET html == SelectSeq(items, IsHtmlItem)
    IN  [i \in 1..Len(html) |-> HrefToName(html[i].href)]

\* the manifest of an archive whose content documents are the given names
ManifestOf(ns) ==
    LET listed == SelectSeq(<<"a.html", "b.html", "c.html", "d.html">>, LAMBDA n : n \in ns)
    IN  [i \in 1..Len(listed) |-> Item(<<listed[i]>>, "application/xhtml+xml")]

---------------------------------------------------------------------------
(* The specification of the container called from one thread *)

IdleRun == [text |-> NoText, p |-> 0, kids |-> <<>>, ret |-> FALSE, done |-> FALSE]

OneName == {"a.html"}

Init ==
    /\ names = OneName
    /\ parsed \in [OneName -> Docs]
    /\ disk = [n \in OneName |-> Serialize(parsed[n])]
    /\ dirtied = {}
    /\ paragraph_counter = [n \in OneName |-> 1]
    /\ members = {}
    /\ last = NoCall
    /\ run = IdleRun
    /\ mainPc = "idle"
    /\ batch = NoBatch
    /\ threads = [n \in OneName |-> NoThread]
    /\ device = NoDevice
    /\ manifest = ManifestOf(names)

Next ==
    \/ \E name \in names : AddKoboSpans(name)
    \/ \E name \in names : AddKoboDivs(name)

Spec == Init /\ [][Next]_vars

---------------------------------------------------------------------------
(* The specification of the sentence splitter on one text run *)

AppendCall ==
    /\ ~run.done
    /\ LET r == AppendKoboSpansFromText(<<>>, run.text, run.p)
       IN  run' = [run EXCEPT !.kids = r.kids, !.ret = r.ok, !.done = TRUE]
    /\ UNCHANGED <<manifest, device, names, parsed, disk, dirtied, paragraph_counter, members, last, threadVars>>

InitText ==
    /\ names = {}
    /\ parsed = [n \in {} |-> 0]
    /\ disk = [n \in {} |-> 0]
    /\ dirtied = {}
    /\ paragraph_counter = [n \in {} |-> 0]
    /\ members = {}
    /\ last = NoCall
    /\ run \in [text : SampleTexts, p : 1..MaxP, kids : {<<>>}, ret : {FALSE}, done : {FALSE}]
    /\ mainPc = "idle"
    /\ batch = NoBatch
    /\ threads = [n \in {} |-> 0]
    /\ device = NoDevice
    /\ manifest = ManifestOf(names)

NextText == AppendCall

SpecText == InitText /\ [][NextText]_vars

---------------------------------------------------------------------------
(* The specification of the container converting an archive *)

AllNames == <<"a.html", "b.html", "c.html", "d.html">>

BatchNames == {AllNames[i] : i \in 1..NumDocs}

BatchUnits == {P(S2, <<Img(S1)>>), OldSpan, Elem("div", NoAttrs, NoText, <<>>, NoText)}

BatchDocs == {Doc(<<>>, Body(NoText, k, WS)) : k \in SeqsUpTo(BatchUnits, 1)}

InitBatch ==
    /\ names = BatchNames
    /\ parsed \in [BatchNames -> BatchDocs]
    /\ disk = [n \in BatchNames |-> Serialize(parsed[n])]
    /\ dirtied = {}
    /\ paragraph_counter = [n \in BatchNames |-> 1]
    /\ members \in {{StyleCss}, {StyleCss, TrackerJs}}
    /\ last = NoCall
    /\ run = IdleRun
    /\ mainPc = "idle"
    /\ batch = NoBatch
    /\ threads = [n \in BatchNames |-> NoThread]
    /\ device = NoDevice
    /\ manifest = ManifestOf(names)

NextBatch ==
    \/ \E cover \in BOOLEAN, extended \in BOOLEAN : ModifyEpub(cover, extended)
    \/ ConvertSpans
    \/ BatchReturns
    \/ ConvertDivs
    \/ ConvertReturns
    \/ \E n \in names : SpanThreadStart(n)
    \/ \E n \in names : SpanThreadLeaf(n)
    \/ \E n \in names : SpanThreadDescend(n)
    \/ \E n \in names : SpanThreadReturn(n)
    \/ \E n \in names : SpanThreadReplace(n)
    \/ \E n \in names : DivThread(n)
    \/ \E n \in names : ThreadFlush(n)
    \/ \E n \in names, m \in names : ThreadCommit(n, m)
    \/ \E n \in names : ThreadDone(n)

SpecBatch == InitBatch /\ [][NextBatch]_vars

---------------------------------------------------------------------------
(* References to members from the heads of the content documents *)

MaxRefs == 3

FontOtf == <<"f", ".", "o", "t", "f">>

CSS_MIMETYPE == "text/css"
JS_MIMETYPE == "application/javascript"

\* mime_map[name], as guess_type gives it for the member's extension
MimeOf(m) ==
    IF HasAt(m, Len(m) - 3, <<".", "c", "s", "s">>) THEN CSS_MIMETYPE
    ELSE IF HasAt(m, Len(m) - 2, <<".", "j", "s">>) THEN JS_MIMETYPE
    ELSE "application/octet-stream"

\* the text at the start of head in a pretty-printed document
HeadText == WS

\* head.makeelement("link", rel="stylesheet", href=...): the documents are at the root
\* of the archive, so the relative path is the member name
LinkElem(m) == Elem("link", [Attrs(NoId, "stylesheet") EXCEPT !.ref = m], NoText, <<>>, NoText)

\* head.makeelement("script", type="text/javascript", src=...)
ScriptElem(m) ==
    Elem("script", [Attrs(NoId, "text/javascript") EXCEPT !.ref = m], NoText, <<>>, NoText)

\* fix_tail(item) for the item that was just appended to head
FixTail(head) ==
    LET idx == Len(head)
    IN  IF idx = 1 THEN [head EXCEPT ![1].tail = HeadText]
        ELSE [head EXCEPT ![idx].tail = head[idx - 1].tail, ![idx - 1].tail = HeadText]

\* __add_content_file_reference_impl(infile, name) on the parsed tree of infile
AddReferenceToDoc(d, m) ==
    IF MimeOf(m) = CSS_MIMETYPE THEN [d EXCEPT !.head = FixTail(Append(d.head, LinkElem(m)))]
    ELSE IF MimeOf(m) = JS_MIMETYPE THEN [d EXCEPT !.head = Append(d.head, ScriptElem(m))]
    ELSE d

\* add_content_file_reference(name): one thread per content document, each on its own
\* tree; the call returns when all of them have ended
AddContentFileReference(m) ==
    /\ mainPc = "idle"
    /\ \A n \in names : Len(parsed[n].head) < MaxRefs
    /\ IF m \notin members
       THEN /\ last' = [op |-> "add_content_file_reference", member |-> m,
                        result |-> "raised", before |-> parsed, applied |-> last.applied]
            /\ UNCHANGED <<parsed, dirtied>>
       ELSE /\ parsed' = [n \in names |-> AddReferenceToDoc(parsed[n], m)]
            /\ dirtied' = IF MimeOf(m) \in {CSS_MIMETYPE, JS_MIMETYPE}
                              THEN dirtied \cup names ELSE dirtied
            /\ last' = [op |-> "add_content_file_reference", member |-> m,
                        result |-> "returned", before |-> parsed,
                        applied |-> last.applied \cup {"add_content_file_reference"}]
    /\ UNCHANGED <<manifest, device, names, disk, paragraph_counter, members, run, threadVars>>

Title == Elem("title", NoAttrs, S1, <<>>, WS)

\* heads of documents as they come: empty, with a title, with a stylesheet already linked
Heads == {<<>>, <<Title>>, <<Title, [LinkElem(StyleCss) EXCEPT !.tail = WS]>>}

RefDocs == {Doc(h, Body(NoText, <<>>, WS)) : h \in Heads}

InitRefs ==
    /\ names = BatchNames
    /\ parsed \in [BatchNames -> RefDocs]
    /\ disk = [n \in BatchNames |-> Serialize(parsed[n])]
    /\ dirtied = {}
    /\ paragraph_counter = [n \in BatchNames |-> 1]
    /\ members \in {{StyleCss}, {StyleCss, KoboJs}, {StyleCss, KoboJs, FontOtf}}
    /\ last = NoCall
    /\ run = IdleRun
    /\ mainPc = "idle"
    /\ batch = NoBatch
    /\ threads = [n \in BatchNames |-> NoThread]
    /\ device = NoDevice
    /\ manifest = ManifestOf(names)

NextRefs == \E m \in {StyleCss, KoboJs, FontOtf} : AddContentFileReference(m)

SpecRefs == InitRefs /\ [][NextRefs]_vars

---------------------------------------------------------------------------
(* The device driver and the KePub output plugin *)

\* A path is a sequence of dots and dot-free pieces of a file name.
MaxStem == 1

EPUB_EXT == <<".", "epub">>
KEPUB_EXT == <<".", "kepub">>

Stems == SeqsUpTo({"a", "."}, MaxStem)

Endings == {<<>>, EPUB_EXT, KEPUB_EXT, <<".", "mobi">>, <<"epub">>}

Paths == {stem \o ending : stem \in Stems, ending \in Endings}

Uuids == {"u1", "u2"}

\* path.rfind('.'), as an index from 1, 0 when there is no dot
RFind(path) ==
    IF \E i \in 1..Len(path) : path[i] = "."
    THEN CHOOSE i \in 1..Len(path) : path[i] = "." /\ \A j \in (i + 1)..Len(path) : path[j] # "."
    ELSE 0

\* path[idx:] for idx = path.rfind('.'); without a dot idx is -1 and the slice is the
\* last character
SliceFrom(path) ==
    IF RFind(path) > 0 THEN SubSeq(path, RFind(path), Len(path))
    ELSE IF path = <<>> THEN <<>> ELSE <<path[Len(path)]>>

\* path[:idx]
SliceUpTo(path) ==
    IF RFind(path) > 0 THEN SubSeq(path, 1, RFind(path) - 1)
    ELSE IF path = <<>> THEN <<>> ELSE SubSeq(path, 1, Len(path) - 1)

ShouldRename_IgnoreSkipped(ext, uuid, skipped) == ext = KEPUB_EXT \/ ext = EPUB_EXT

\* ext == KEPUB_EXT or (ext == EPUB_EXT and mi.uuid not in self.skip_renaming_files)
ShouldRename(ext, uuid, skipped) == ext = KEPUB_EXT \/ (ext = EPUB_EXT /\ uuid \notin skipped)

\* what filename_callback(path, mi) returns
FilenameCallbackResult(path, uuid, extra, skipped) ==
    IF extra /\ ShouldRename(SliceFrom(path), uuid, skipped)
    THEN SliceUpTo(path) \o <<".", "kepub">> \o EPUB_EXT
    ELSE path

\* infile.endswith(ext)
EndsWith(path, ext) ==
    Len(path) >= Len(ext) /\ SubSeq(path, Len(path) - Len(ext) + 1, Len(path)) = ext

IsNotReplacementChar(c) == c # "FFFD"

\* html.replace of U+FFFD by nothing, on one text run; a run left empty is parsed back as None
CleanText(text) ==
    IF text = NoText THEN NoText
    ELSE IF SelectSeq(text, IsNotReplacementChar) = <<>> THEN NoText
    ELSE SelectSeq(text, IsNotReplacementChar)

RECURSIVE CleanNode(_)
CleanNode(n) ==
    [n EXCEPT !.text = CleanText(n.text),
              !.tail = CleanText(n.tail),
              !.kids = [i \in 1..Len(n.kids) |-> CleanNode(n.kids[i])]]

\* forced_cleanup(name): the raw data cleaned and parsed again
ForcedCleanup(d) == Doc([i \in 1..Len(d.head) |-> CleanNode(d.head[i])], CleanNode(d.body))

\* is_drm_encumbered for an archive whose META-INF/encryption.xml is absent, names only
\* the font obfuscation algorithms, names another algorithm, or cannot be parsed (then
\* parsed() gives None or raises)
IsDrmEncumbered(encryption, xmlNone) ==
    CASE encryption \in {"absent", "fonts"} -> "false"
      [] encryption = "other" -> "true"
      [] encryption = "unparsable" -> IF xmlNone THEN "true" ELSE "raised"

\* container.forced_cleanup() in modify_epub is called without the name that
\* forced_cleanup(self, name) takes
ModifyEpubRaises == TRUE

Propagates_Always(skip_failed) == TRUE

\* if not skip_failed: raise InvalidEPub(...)
Propagates(skip_failed) == ~skip_failed

NoDeviceCall ==
    [op |-> "none", path |-> <<>>, uuid |-> "", ret |-> <<>>, result |-> "",
     failed |-> FALSE, base_called |-> FALSE, skipBefore |-> {}]

\* KEPubContainer(infile, log): forced_cleanup over every content document, each written
\* by flush_cache
NewContainer ==
    /\ parsed' = [n \in names |-> ForcedCleanup(parsed[n])]
    /\ disk' = [n \in names |-> Serialize(ForcedCleanup(parsed[n]))]

\* KOBOTOUCHEXTENDED.filename_callback(path, mi)
FilenameCallback(path, uuid) ==
    /\ device.op # "none"
    /\ device' = [device EXCEPT
                    !.call = [NoDeviceCall EXCEPT
                                !.op = "filename_callback", !.path = path, !.uuid = uuid,
                                !.result = "returned",
                                !.ret = FilenameCallbackResult(path, uuid, device.opts.extra,
                                                               device.skip_renaming_files),
                                !.skipBefore = device.skip_renaming_files]]
    /\ UNCHANGED <<manifest, names, parsed, disk, dirtied, paragraph_counter, members, last, run, threadVars>>

AddSkipped_Replacing(skip_renaming_files, uuid) == {uuid}

\* self.skip_renaming_files.add(metadata.uuid)
AddSkipped(skip_renaming_files, uuid) == skip_renaming_files \cup {uuid}

\* KOBOTOUCHEXTENDED._modify_epub(infile, metadata) of the device driver
DeviceModifyEpub(infile, uuid, detailsOk, xmlNone) ==
    LET call == [NoDeviceCall EXCEPT !.op = "_modify_epub", !.path = infile, !.uuid = uuid,
                                     !.skipBefore = device.skip_renaming_files]
        skipped == AddSkipped(device.skip_renaming_files, uuid)
        drm == IsDrmEncumbered(device.encryption, xmlNone)
        failed == drm = "raised" \/ (drm = "false" /\ (~detailsOk \/ ModifyEpubRaises))
    IN  /\ device.op # "none"
        /\ IF ~EndsWith(infile, EPUB_EXT)
           THEN /\ device' = [device EXCEPT
                                !.skip_renaming_files =
                                    IF ~EndsWith(infile, KEPUB_EXT) THEN skipped ELSE @,
                                !.call = [call EXCEPT !.result = "returned",
                                                      !.base_called = TRUE]]
                /\ UNCHANGED <<parsed, disk, members>>
           ELSE /\ NewContainer
                /\ members' = IF drm = "false" /\ detailsOk
                                 THEN members \cup {<<"driverinfo.kte">>} ELSE members
                /\ device' =
                     [device EXCEPT
                        !.transforms = @ \cup {"forced_cleanup"},
                        !.skip_renaming_files =
                            IF drm = "true" THEN skipped
                            ELSE IF failed /\ ~Propagates(device.opts.skip_failed) THEN skipped
                            ELSE IF ~failed /\ ~device.opts.extra THEN skipped
                            ELSE @,
                        !.call =
                            IF drm = "true"
                            THEN [call EXCEPT !.result = "returned",
                                              !.base_called = device.opts.upload_encumbered]
                            ELSE IF failed
                            THEN [call EXCEPT
                                    !.failed = TRUE,
                                    !.result = IF Propagates(device.opts.skip_failed)
                                                  THEN "raised" ELSE "returned",
                                    !.base_called = ~Propagates(device.opts.skip_failed)]
                            ELSE [call EXCEPT !.result = "returned", !.base_called = TRUE]]
    /\ UNCHANGED <<manifest, names, dirtied, paragraph_counter, last, run, threadVars>>

\* KEPubOutput.convert(oeb_book, output, ...) once the ePub output plugin has written
\* the archive
KepubOutputConvert(xmlNone) ==
    LET drm == IsDrmEncumbered(device.encryption, xmlNone)
    IN  /\ device.op # "none"
        /\ NewContainer
        /\ members' = IF drm = "false" THEN members \cup {<<"plugininfo.kte">>} ELSE members
        /\ device' = [device EXCEPT
                        !.transforms = @ \cup {"forced_cleanup"},
                        !.call = [NoDeviceCall EXCEPT
                                    !.op = "convert",
                                    !.failed = drm # "true",
                                    !.result = IF drm = "true" THEN "returned" ELSE "raised"]]
    /\ UNCHANGED <<manifest, names, dirtied, paragraph_counter, last, run, threadVars>>

Replaced == <<"a", "FFFD", ".">>

DeviceDocs == {Doc(<<>>, Body(NoText, <<P(t, <<>>)>>, WS)) : t \in {S1, Replaced}}

InitDevice ==
    /\ names = OneName
    /\ parsed \in [OneName -> DeviceDocs]
    /\ disk = [n \in OneName |-> Serialize(parsed[n])]
    /\ dirtied = {}
    /\ paragraph_counter = [n \in OneName |-> 1]
    /\ members = {}
    /\ last = NoCall
    /\ run = IdleRun
    /\ mainPc = "idle"
    /\ batch = NoBatch
    /\ threads = [n \in OneName |-> NoThread]
    /\ manifest = ManifestOf(names)
    /\ \E encryption \in {"absent", "fonts", "other", "unparsable"},
          extra \in BOOLEAN, skip_failed \in BOOLEAN, upload_encumbered \in BOOLEAN :
         device = [op |-> "device",
                   skip_renaming_files |-> {},
                   opts |-> [extra |-> extra, skip_failed |-> skip_failed,
                             upload_encumbered |-> upload_encumbered],
                   encryption |-> encryption,
                   diskOriginal |-> disk,
                   transforms |-> {},
                   call |-> NoDeviceCall]

NextDevice ==
    \/ \E path \in Paths, uuid \in Uuids : FilenameCallback(path, uuid)
    \/ \E infile \in {<<"a">> \o EPUB_EXT, <<"a">> \o KEPUB_EXT, <<"a", ".", "mobi">>},
          uuid \in Uuids, detailsOk \in BOOLEAN, xmlNone \in BOOLEAN :
         DeviceModifyEpub(infile, uuid, detailsOk, xmlNone)
    \/ \E xmlNone \in BOOLEAN : KepubOutputConvert(xmlNone)

SpecDevice == InitDevice /\ [][NextDevice]_vars

---------------------------------------------------------------------------
(* What the claims speak of *)

TextSeq(text) == IF text = NoText THEN <<>> ELSE text

\* the text inside an element in document order: its text, then for every child the
\* text inside the child and the child's tail
RECURSIVE InnerText(_)
InnerText(n) ==
    IF n.kind # "elem" THEN <<>>
    ELSE TextSeq(n.text)
             \o Concat([i \in 1..Len(n.kids) |-> InnerText(n.kids[i]) \o TextSeq(n.kids[i].tail)])

IsNotKoboSpan(n) == ~IsKoboSpan(n)

\* the nodes inside an element that are not tracking spans, in document order, each with
\* its kind, tag and attributes
OtherNodes(n) ==
    LET others == SelectSeq(Descendants(n), IsNotKoboSpan)
    IN  [i \in 1..Len(others) |->
            [kind |-> others[i].kind, tag |-> others[i].tag, attrs |-> others[i].attrs]]

\* the ids of the tracking spans inside an element, in document order
KoboIds(n) ==
    LET spans == SelectSeq(Descendants(n), IsKoboSpan)
    IN  [i \in 1..Len(spans) |-> spans[i].attrs.id]

IdBefore(a, b) == a.p < b.p \/ (a.p = b.p /\ a.s < b.s)

IsBlankRun(t) == t # NoText /\ IsBlank(t)

\* every node inside an element that is not a tracking span, in document order, with its
\* text and the text run that follows it (for an element wrapped in a tracking span, the
\* run that follows the span)
RECURSIVE Slots(_, _)
Slots(n, tail) ==
    IF IsKoboSpan(n)
    THEN IF n.kids = <<>> THEN <<>> ELSE Slots(n.kids[1], n.tail)
    ELSE <<[kind |-> n.kind, tag |-> n.tag, text |-> n.text, tail |-> tail]>>
             \o Concat([i \in 1..Len(n.kids) |-> Slots(n.kids[i], n.kids[i].tail)])

\* the text runs of an element that the injector offers to the sentence splitter
RECURSIVE OfferedRuns(_)
OfferedRuns(n) ==
    IF ReturnsEarly(n) THEN <<>>
    ELSE <<n.text>>
             \o Concat([i \in 1..Len(n.kids) |-> OfferedRuns(n.kids[i]) \o <<n.kids[i].tail>>])

IsSentenceRun(t) == t # NoText /\ ~IsBlank(t)

SpansInjected == last.op = "add_kobo_spans" /\ last.result = "returned"

After == parsed[last.name]

---------------------------------------------------------------------------
(* Claims about the container called from one thread (Spec) *)

\* C1: a call of add_kobo_spans on a document that already holds a tracking span leaves
\* its parsed tree, its file and its paragraph counter as they were, every time.
C1_SpansNotAddedTwice ==
    (last.op = "add_kobo_spans" /\ KoboSpanCount(last.before) > 0)
        => /\ parsed[last.name] = last.before
           /\ disk[last.name] = last.diskBefore
           /\ paragraph_counter[last.name] = last.pBefore

C1_Witness ==
    /\ last.op = "add_kobo_spans"
    /\ last.result = "raised"
    /\ "add_kobo_spans" \in last.applied
    /\ KoboSpanCount(After) > 1

\* C2: span injection keeps the text inside body, character for character and in
\* order, and keeps the nodes that are not tracking spans in order with their attributes.
C2_TextPreserved ==
    SpansInjected
        => /\ InnerText(After.body) = InnerText(last.before.body)
           /\ OtherNodes(After.body) = OtherNodes(last.before.body)

C2_Witness ==
    /\ SpansInjected
    /\ KoboSpanCount(After) > 2
    /\ \E i \in 1..Len(Slots(After.body, NoText)) :
           IsBlankRun(Slots(After.body, NoText)[i].text)

\* C4: after span injection the ids of the tracking spans strictly increase in document
\* order, so no two are equal.
C4_IdsStrictlyIncrease ==
    SpansInjected
        => LET ids == KoboIds(After.body)
           IN  \A i \in 1..Len(ids) : \A j \in 1..Len(ids) : i < j => IdBefore(ids[i], ids[j])

\* C5: add_kobo_divs changes the document exactly when it has no book-inner div and not
\* more div than p elements; otherwise tree and file stay as they were; no document
\* ever holds two book-inner or two book-columns divs.
C5_DivsExactlyWhen ==
    /\ last.op = "add_kobo_divs"
          => LET applies == KoboDivCount(last.before) = 0
                                /\ DivCount(last.before) <= PCount(last.before)
             IN  /\ (last.result = "returned") = applies
                 /\ applies => After # last.before /\ disk[last.name] # last.diskBefore
                 /\ ~applies => After = last.before /\ disk[last.name] = last.diskBefore
    /\ \A n \in names : /\ CountWhere(AllNodes(parsed[n]), IsBookInner) <= 1
                         /\ CountWhere(AllNodes(parsed[n]), IsBookColumns) <= 1

C5_Witness ==
    /\ last.op = "add_kobo_divs"
    /\ last.result = "raised"
    /\ "add_kobo_divs" \in last.applied
    /\ KoboDivCount(After) = 1

\* C6: a text run inside body that is empty or only whitespace gets no tracking span, is
\* still the text of its node or the run that follows its node, and does not advance
\* the paragraph counter: the counter advances once per run that holds a sentence.
C6_BlankRunsKept ==
    SpansInjected
        => LET before == Slots(last.before.body, NoText)
               after == Slots(After.body, NoText)
               spans == SelectSeq(Descendants(After.body), IsKoboSpan)
           IN  /\ Len(after) = Len(before)
               /\ \A i \in 1..Len(before) :
                     /\ IsBlankRun(before[i].text) => after[i].text = before[i].text
                     /\ IsBlankRun(before[i].tail) => after[i].tail = before[i].tail
               /\ \A i \in 1..Len(spans) : ~IsBlankRun(spans[i].text)
               /\ paragraph_counter[last.name]
                     = last.pBefore + CountWhere(OfferedRuns(last.before.body), IsSentenceRun)

C6_Witness ==
    /\ SpansInjected
    /\ KoboSpanCount(After) > 0
    /\ paragraph_counter[last.name] > last.pBefore
    /\ \E i \in 1..Len(Slots(last.before.body, NoText)) :
           IsBlankRun(Slots(last.before.body, NoText)[i].text)
    /\ \E i \in 1..Len(Slots(last.before.body, NoText)) :
           IsBlankRun(Slots(last.before.body, NoText)[i].tail)

IsSkippedElem(n) == n.kind = "elem" /\ IsSkipped(n)

\* the elements of the skip set inside an element, in document order, each with its
\* text, attributes and children
SkippedElems(n) ==
    LET skipped == SelectSeq(Descendants(n), IsSkippedElem)
    IN  [i \in 1..Len(skipped) |-> [skipped[i] EXCEPT !.tail = NoText]]

\* a body that holds skip-set elements and nothing else but whitespace
OnlySkipped(body) ==
    /\ body.kids # <<>>
    /\ body.text = NoText \/ IsBlank(body.text)
    /\ \A i \in 1..Len(body.kids) :
          /\ IsSkippedElem(body.kids[i])
          /\ body.kids[i].tail = NoText \/ IsBlank(body.kids[i].tail)

\* C7: span injection leaves every skip-set element and its descendants as they were,
\* and a document whose body holds only skip-set elements is identical afterwards.
C7_SkippedUntouched ==
    SpansInjected
        => /\ SkippedElems(After.body) = SkippedElems(last.before.body)
           /\ OnlySkipped(last.before.body) => After = last.before

---------------------------------------------------------------------------
(* Claims about the sentence splitter (SpecText) *)

IsNotEmpty(g) == g # <<>>

\* a run that holds one sentence: whitespace, characters of one line without a terminal,
\* one terminal, at most one closing quote, whitespace
IsOneSentence(t) ==
    /\ t # NoText
    /\ \E k \in 1..Len(t) :
          /\ t[k] \in TerminalChars
          /\ \A i \in SkipWhitespace(t, 1)..(k - 1) : t[i] \notin TerminalChars \cup {"NL"}
          /\ SkipWhitespace(t, 1) <= k
          /\ \A i \in (k + 1)..Len(t) :
                t[i] \in WhitespaceChars \/ (i = k + 1 /\ t[i] \in QuoteChars)

---------------------------------------------------------------------------
(* Claims about the container converting an archive (SpecBatch) *)

\* C8: whatever the interleaving of the threads, every document gets the span ids and
\* the paragraph counter it gets when it is processed alone, and the counter of a
\* document whose thread has not run yet is the one the batch started with.
C8_NumberingAsSequential ==
    batch.func = "add_kobo_spans"
        => \A n \in names :
             LET alone == AddKoboSpansToNode(batch.parsedBefore[n].body, batch.countersBefore[n])
                 skip == KoboSpanCount(batch.parsedBefore[n]) > 0
             IN  /\ threads[n].pc = "start"
                       => paragraph_counter[n] = batch.countersBefore[n]
                 /\ threads[n].pc \in {"flush", "join", "done"}
                       => /\ ~skip
                          /\ KoboIds(parsed[n].body) = KoboIds(alone.node)
                          /\ parsed[n].body = alone.node
                          /\ paragraph_counter[n] = alone.p
                 /\ threads[n].pc = "failed"
                       => /\ skip
                          /\ parsed[n] = batch.parsedBefore[n]
                          /\ paragraph_counter[n] = batch.countersBefore[n]

C8_Witness ==
    /\ batch.func = "add_kobo_spans"
    /\ batch.state = "returned"
    /\ \E n \in names : \E m \in names \ {n} :
          /\ paragraph_counter[n] > 1
          /\ paragraph_counter[m] > 1
          /\ KoboSpanCount(parsed[n]) > 2
          /\ KoboSpanCount(parsed[m]) > 2

BatchOver == batch.state \in {"returned", "raised"}

\* C9: when the transform of a document has failed in a batch, the batch call raises
\* and no file has been written during the batch.
C9_FailFastNoCommit ==
    (BatchOver /\ \E n \in names : threads[n].pc = "failed")
        => /\ batch.state = "raised"
           /\ disk = batch.diskBefore

HasScriptRef(d, m) ==
    \E i \in 1..Len(d.head) : d.head[i].tag = "script" /\ d.head[i].attrs.ref = m

\* C10: after modify_epub with extended features, an archive that had no member matching
\* the tracking-script pattern has one, referenced from the head of every content
\* document; an archive that had one has no new member and no script reference.
C10_ScriptInjected ==
    (last.op = "modify_epub" /\ "extended_kepub_features" \in last.opts)
        => IF \E m \in last.membersBefore : MatchesKoboJs(m)
           THEN /\ members = last.membersBefore
                /\ \A n \in names : \A m \in members : ~HasScriptRef(parsed[n], m)
           ELSE \E m \in members \ last.membersBefore :
                    /\ MatchesKoboJs(m)
                    /\ \A n \in names : HasScriptRef(parsed[n], m)

---------------------------------------------------------------------------
(* The container opened on a manifest: the cleanup batch of the constructor, files
   copied into the container afterwards, and transforms called on it *)

MaxItems == 2       \* most items of the manifest the container is opened on

Hrefs == {<<"a.html">>, <<".", "a.html">>, <<"x", "..", "a.html">>, <<"b.html">>}

Items == {Item(h, mt) : h \in Hrefs, mt \in {"application/xhtml+xml", "text/css"}}

Manifests == SeqsUpTo(Items, MaxItems) \ {<<>>}

NameSet(items) == {HtmlNames(items)[i] : i \in 1..Len(HtmlNames(items))}

\* KEPubContainer.__init__: self.__run_async_over_content(self.forced_cleanup) starts
\* one thread per name that html_names() yields
OpenContainer ==
    /\ mainPc = "new"
    /\ threads' = [i \in 1..Len(HtmlNames(manifest)) |->
                      [func |-> "forced_cleanup", name |-> HtmlNames(manifest)[i],
                       pc |-> "start", tree |-> <<>>]]
    /\ batch' = [NoBatch EXCEPT !.func = "forced_cleanup", !.state = "running"]
    /\ mainPc' = "cleanup"
    /\ UNCHANGED <<manifest, device, names, parsed, disk, dirtied, paragraph_counter, members,
                   last, run>>

\* forced_cleanup(name) in a thread: the raw data is read and cleaned
CleanupRead(i) ==
    /\ i \in DOMAIN threads
    /\ threads[i].pc = "start"
    /\ threads' = [threads EXCEPT ![i].pc = "cleaned",
                                  ![i].tree = ForcedCleanup(parsed[threads[i].name])]
    /\ UNCHANGED <<manifest, device, names, parsed, disk, dirtied, paragraph_counter, members,
                   last, run, mainPc, batch>>

\* self.replace(name, self.parse_xhtml(html))
CleanupReplace(i) ==
    /\ i \in DOMAIN threads
    /\ threads[i].pc = "cleaned"
    /\ parsed' = [parsed EXCEPT ![threads[i].name] = threads[i].tree]
    /\ dirtied' = dirtied \cup {threads[i].name}
    /\ threads' = [threads EXCEPT ![i].pc = "flush"]
    /\ UNCHANGED <<manifest, device, names, disk, paragraph_counter, members, last, run,
                   mainPc, batch>>

\* self.flush_cache(): every name in self.dirtied is committed, and the target returns
CleanupFlush(i) ==
    /\ i \in DOMAIN threads
    /\ threads[i].pc = "flush"
    /\ disk' = Committed(parsed, disk, dirtied \cap names)
    /\ dirtied' = {}
    /\ threads' = [threads EXCEPT ![i].pc = "done"]
    /\ UNCHANGED <<manifest, device, names, parsed, paragraph_counter, members, last, run,
                   mainPc, batch>>

\* the joins return and the constructor returns
ContainerOpened ==
    /\ mainPc = "cleanup"
    /\ \A i \in DOMAIN threads : threads[i].pc = "done"
    /\ batch' = [batch EXCEPT !.state = "returned"]
    /\ mainPc' = "idle"
    /\ UNCHANGED <<manifest, device, names, parsed, disk, dirtied, paragraph_counter, members,
                   last, run, threads>>

\* the first of the names that is not a member yet: generate_item gives a copied file
\* an href no other item has
FreshName == SelectSeq(AllNames, LAMBDA n : n \notin names)[1]

\* copy_file_to_container(path) for an HTML file: a manifest item is made for it and
\* the file is copied into the container as it is
CopyFileToContainer(d) ==
    /\ mainPc = "idle"
    /\ Len(manifest) <= MaxItems
    /\ LET name == FreshName
       IN  /\ manifest' = Append(manifest, Item(<<name>>, "application/xhtml+xml"))
           /\ names' = names \cup {name}
           /\ parsed' = [n \in names \cup {name} |-> IF n = name THEN d ELSE parsed[n]]
           /\ disk' = [n \in names \cup {name} |-> IF n = name THEN Serialize(d) ELSE disk[n]]
           /\ paragraph_counter' =
                  [n \in names \cup {name} |-> IF n = name THEN 1 ELSE paragraph_counter[n]]
    /\ last' = Call("copy_file_to_container", "", "returned")
    /\ UNCHANGED <<device, dirtied, members, run, threadVars>>

\* a transform called on the open container by the thread that owns it
TransformCall(name) ==
    /\ mainPc = "idle"
    /\ (AddKoboSpans(name) \/ AddKoboDivs(name))

InitManifest ==
    /\ manifest \in Manifests
    /\ names = NameSet(manifest)
    /\ parsed \in [NameSet(manifest) -> DeviceDocs]
    /\ disk = [n \in NameSet(manifest) |-> Serialize(parsed[n])]
    /\ dirtied = {}
    /\ paragraph_counter = [n \in NameSet(manifest) |-> 1]
    /\ members = {}
    /\ last = NoCall
    /\ run = IdleRun
    /\ mainPc = "new"
    /\ batch = NoBatch
    /\ threads = <<>>
    /\ device = NoDevice

NextManifest ==
    \/ OpenContainer
    \/ \E i \in 1..(MaxItems + 1) : CleanupRead(i)
    \/ \E i \in 1..(MaxItems + 1) : CleanupReplace(i)
    \/ \E i \in 1..(MaxItems + 1) : CleanupFlush(i)
    \/ ContainerOpened
    \/ \E d \in DeviceDocs : CopyFileToContainer(d)
    \/ \E name \in names : TransformCall(name)

SpecManifest == InitManifest /\ [][NextManifest]_vars

---------------------------------------------------------------------------
(* The device driver's gates for reading statistics *)

min_dbversion_stats == 88

DbSpread == 3       \* database versions this far below and above min_dbversion_stats

DbVersions == (min_dbversion_stats - DbSpread)..(min_dbversion_stats + DbSpread)

\* KOBOTOUCHEXTENDED.enable_stats, the gate upload_books asks before it inserts rows
EnableStats(dbversion, reading_stats, extra_features) ==
    dbversion >= min_dbversion_stats /\ reading_stats /\ extra_features

\* KOBOTOUCHEXTENDED.save_template()
SaveTemplate(dbversion, reading_stats, extra_features) ==
    IF dbversion >= min_dbversion_stats /\ reading_stats /\ extra_features
    THEN "kobo_kepub_template"
    ELSE "base_template"

\* KOBOTOUCHEXTENDED.create_upload_path: the second definition in the class body, which
\* is the one the class keeps
CreateUploadPath(dbversion, reading_stats, extra_features) ==
    IF dbversion > min_dbversion_stats /\ reading_stats /\ extra_features
    THEN "kobo_kepub_uuid_path"
    ELSE "base_upload_path"

\* one of the three methods is called and what it answered is kept
AskSaveTemplate ==
    /\ device.template = "unasked"
    /\ device' = [device EXCEPT !.template =
                     SaveTemplate(device.dbversion, device.reading_stats, device.extra_features)]
    /\ UNCHANGED <<manifest, names, parsed, disk, dirtied, paragraph_counter, members, last, run,
                   threadVars>>

AskCreateUploadPath ==
    /\ device.upload_path = "unasked"
    /\ device' = [device EXCEPT !.upload_path =
                     CreateUploadPath(device.dbversion, device.reading_stats,
                                      device.extra_features)]
    /\ UNCHANGED <<manifest, names, parsed, disk, dirtied, paragraph_counter, members, last, run,
                   threadVars>>

\* upload_books: the rows of the KePub are inserted when enable_stats holds
UploadBooks ==
    /\ device.rows = "unasked"
    /\ device' = [device EXCEPT !.rows =
                     IF EnableStats(device.dbversion, device.reading_stats,
                                    device.extra_features)
                     THEN "inserted" ELSE "none"]
    /\ UNCHANGED <<manifest, names, parsed, disk, dirtied, paragraph_counter, members, last, run,
                   threadVars>>

InitStats ==
    /\ names = OneName
    /\ parsed = [n \in OneName |-> Doc(<<>>, Body(NoText, <<>>, NoText))]
    /\ disk = [n \in OneName |-> Serialize(parsed[n])]
    /\ dirtied = {}
    /\ paragraph_counter = [n \in OneName |-> 1]
    /\ members = {}
    /\ last = NoCall
    /\ run = IdleRun
    /\ mainPc = "idle"
    /\ batch = NoBatch
    /\ threads = [n \in OneName |-> NoThread]
    /\ manifest = ManifestOf(names)
    /\ \E dbversion \in DbVersions, reading_stats \in BOOLEAN, extra_features \in BOOLEAN :
         device = [op |-> "stats", dbversion |-> dbversion, reading_stats |-> reading_stats,
                   extra_features |-> extra_features, template |-> "unasked",
                   upload_path |-> "unasked", rows |-> "unasked"]

NextStats ==
    \/ AskSaveTemplate
    \/ AskCreateUploadPath
    \/ UploadBooks

SpecStats == InitStats /\ [][NextStats]_vars

---------------------------------------------------------------------------
(* The KePub input plugin: the tracking spans stripped from a document *)

\* //h:span[@class="koboSpan"]
IsClassKoboSpan(n) == n.kind = "elem" /\ n.tag = "span" /\ n.attrs.class = "koboSpan"

RECURSIVE RefactorSpans(_), RefactorChildren(_, _, _)

\* refactor_span(a) for every span of the class, in document order: the span leaves
\* its parent together with what is inside it, and its text and its tail are added to
\* the tail of the sibling before it, or to the parent's text when it was the first child
RefactorChildren(text, acc, todo) ==
    IF todo = <<>> THEN [text |-> text, kids |-> acc]
    ELSE LET a == Head(todo)
             moved == TextSeq(a.text) \o TextSeq(a.tail)
         IN  IF IsClassKoboSpan(a)
             THEN IF acc = <<>>
                  THEN RefactorChildren(TextSeq(text) \o moved, acc, Tail(todo))
                  ELSE RefactorChildren(
                           text,
                           [acc EXCEPT ![Len(acc)].tail = TextSeq(acc[Len(acc)].tail) \o moved],
                           Tail(todo))
             ELSE RefactorChildren(text, Append(acc, RefactorSpans(a)), Tail(todo))

RefactorSpans(n) ==
    IF n.kind # "elem" THEN n
    ELSE LET r == RefactorChildren(n.text, <<>>, n.kids)
         IN  [n EXCEPT !.text = r.text, !.kids = r.kids]

\* KEPUBInput.postprocess_book on the book that add_kobo_spans produced; the book is
\* read by a converter of its own, so a container on its result counts from 1 again.
\* The call kept in last is given the document as it was before the spans were added.
PostprocessBook(name, strip_kobo_spans) ==
    /\ last.op = "add_kobo_spans"
    /\ last.result = "returned"
    /\ last.name = name
    /\ LET data == IF strip_kobo_spans
                   THEN [parsed[name] EXCEPT !.body = RefactorSpans(parsed[name].body)]
                   ELSE parsed[name]
       IN  /\ parsed' = [parsed EXCEPT ![name] = data]
           /\ disk' = [disk EXCEPT ![name] = Serialize(data)]
    /\ paragraph_counter' = [paragraph_counter EXCEPT ![name] = 1]
    /\ last' = [Call("postprocess_book", name, "returned") EXCEPT
                  !.before = last.before,
                  !.opts = IF strip_kobo_spans THEN {"strip_kobo_spans"} ELSE {}]
    /\ UNCHANGED <<manifest, device, names, dirtied, members, run, threadVars>>

NextStrip ==
    \/ \E name \in names : AddKoboSpans(name)
    \/ \E name \in names, strip_kobo_spans \in BOOLEAN : PostprocessBook(name, strip_kobo_spans)

SpecStrip == Init /\ [][NextStrip]_vars

---------------------------------------------------------------------------
(* The hyphenation options of the driver's configuration widget *)

MaxClicks == 5      \* most clicks on the two checkboxes

\* the two checkboxes and the enabled state that toggle_hyphenation_fields gives to
\* all the hyphenation parameter fields together
Widgets(hyphenate, disable_hyphenation, enabled) ==
    [hyphenate_checkbox |-> hyphenate,
     disable_hyphenation_checkbox |-> disable_hyphenation,
     fields_enabled |-> enabled]

\* disable_hyphenation_checkbox_clicked(checked)
DisableHyphenationCheckboxClicked(w, checked) ==
    LET enable_hyphenation_fields == ~(checked \/ w.disable_hyphenation_checkbox)
    IN  [w EXCEPT !.fields_enabled = enable_hyphenation_fields,
                  !.hyphenate_checkbox = IF w.hyphenate_checkbox /\ checked THEN FALSE ELSE @]

\* hyphenate_checkbox_clicked(checked)
HyphenateCheckboxClicked(w, checked) ==
    LET enable_hyphenation_fields == checked \/ w.hyphenate_checkbox
    IN  [w EXCEPT !.fields_enabled = enable_hyphenation_fields,
                  !.disable_hyphenation_checkbox =
                      IF w.disable_hyphenation_checkbox /\ checked THEN FALSE ELSE @]

\* HyphenationGroupBox.__init__: the checkboxes take the stored preferences, the fields
\* are enabled as new widgets are, and both handlers are called with the preferences
Constructed(hyphenate, disable_hyphenation) ==
    HyphenateCheckboxClicked(
        DisableHyphenationCheckboxClicked(Widgets(hyphenate, disable_hyphenation, TRUE),
                                          disable_hyphenation),
        hyphenate)

\* a click on 'Hyphenate Files': the checkbox changes its state, then clicked is emitted
ClickHyphenate ==
    /\ Len(device.clicks) < MaxClicks
    /\ LET checked == ~device.widgets.hyphenate_checkbox
       IN  device' = [device EXCEPT
                        !.widgets = HyphenateCheckboxClicked(
                                        [@ EXCEPT !.hyphenate_checkbox = checked], checked),
                        !.clicks = Append(@, "hyphenate")]
    /\ UNCHANGED <<manifest, names, parsed, disk, dirtied, paragraph_counter, members, last, run,
                   threadVars>>

\* a click on 'Disable hyphenation'
ClickDisableHyphenation ==
    /\ Len(device.clicks) < MaxClicks
    /\ LET checked == ~device.widgets.disable_hyphenation_checkbox
       IN  device' = [device EXCEPT
                        !.widgets = DisableHyphenationCheckboxClicked(
                                        [@ EXCEPT !.disable_hyphenation_checkbox = checked],
                                        checked),
                        !.clicks = Append(@, "disable_hyphenation")]
    /\ UNCHANGED <<manifest, names, parsed, disk, dirtied, paragraph_counter, members, last, run,
                   threadVars>>

\* the stored preferences: the widget never leaves both checkboxes checked
InitConfig ==
    /\ names = OneName
    /\ parsed = [n \in OneName |-> Doc(<<>>, Body(NoText, <<>>, NoText))]
    /\ disk = [n \in OneName |-> Serialize(parsed[n])]
    /\ dirtied = {}
    /\ paragraph_counter = [n \in OneName |-> 1]
    /\ members = {}
    /\ last = NoCall
    /\ run = IdleRun
    /\ mainPc = "idle"
    /\ batch = NoBatch
    /\ threads = [n \in OneName |-> NoThread]
    /\ manifest = ManifestOf(names)
    /\ \E hyphenate \in BOOLEAN, disable_hyphenation \in BOOLEAN :
         /\ ~(hyphenate /\ disable_hyphenation)
         /\ device = [op |-> "config",
                      prefs |-> [hyphenate |-> hyphenate,
                                 disable_hyphenation |-> disable_hyphenation],
                      widgets |-> Constructed(hyphenate, disable_hyphenation),
                      clicks |-> <<>>]

NextConfig ==
    \/ ClickHyphenate
    \/ ClickDisableHyphenation

SpecConfig == InitConfig /\ [][NextConfig]_vars

---------------------------------------------------------------------------
(* Claims about references from the heads (SpecRefs) *)

IsRefTo(e, m) ==
    /\ e.attrs.ref = m
    /\ e.tag = IF MimeOf(m) = CSS_MIMETYPE THEN "link" ELSE "script"

\* how many elements of the head of a document refer to a member
RefCount(d, m) == Cardinality({i \in 1..Len(d.head) : IsRefTo(d.head[i], m)})

\* C11: after a call of add_content_file_reference for a CSS or JavaScript member has
\* returned, the head of every content document holds exactly one reference to it,
\* however many calls were made before.
C11_OneReferencePerMember ==
    (/\ last.op = "add_content_file_reference"
     /\ last.result = "returned"
     /\ MimeOf(last.member) \in {CSS_MIMETYPE, JS_MIMETYPE})
        => \A n \in names : RefCount(parsed[n], last.member) = 1

---------------------------------------------------------------------------
(* Claims about the device driver and the output plugin (SpecDevice) *)

RenamedPath(path, ext) == SubSeq(path, 1, Len(path) - Len(ext)) \o <<".", "kepub", ".", "epub">>

\* C12: with extended features on, filename_callback renames a path ending in .kepub to
\* <stem>.kepub.epub always, a path ending in .epub to <stem>.kepub.epub exactly when
\* the uuid is not in skip_renaming_files, and returns every other path unchanged; with
\* extended features off it returns every path unchanged.
C12_FilenameCallback ==
    (device.op = "device" /\ device.call.op = "filename_callback")
        => LET path == device.call.path
           IN  device.call.ret =
                   IF device.opts.extra /\ EndsWith(path, KEPUB_EXT)
                   THEN RenamedPath(path, KEPUB_EXT)
                   ELSE IF /\ device.opts.extra
                           /\ EndsWith(path, EPUB_EXT)
                           /\ device.call.uuid \notin device.call.skipBefore
                   THEN RenamedPath(path, EPUB_EXT)
                   ELSE path

C12_Witness ==
    /\ device.op = "device"
    /\ device.call.op = "filename_callback"
    /\ device.opts.extra
    /\ device.call.path = <<"a", ".", "epub">>
    /\ device.call.uuid \in device.call.skipBefore
    /\ device.call.skipBefore # Uuids
    /\ device.call.ret = device.call.path

C14_DrmNeverModified ==
    (device.op = "device" /\ device.encryption \in {"other", "unparsable"})
        => /\ device.transforms = {}
           /\ disk = device.diskOriginal

---------------------------------------------------------------------------
(* Claims about the div wrapper as a structure (Spec) *)

DivsAdded == last.op = "add_kobo_divs" /\ last.result = "returned"

\* C16: when add_kobo_divs is applied, the body keeps its tag and attributes and has
\* exactly one child, a div with id book-columns and no text of its own, whose only
\* child is a div with id book-inner; book-inner holds the body's original leading
\* text and all its original children, in order, each with its original trailing text
C16_DivStructure ==
    DivsAdded =>
        LET o == last.before.body
            b == After.body
        IN  /\ b.tag = o.tag
            /\ b.attrs = o.attrs
            /\ b.text = NoText
            /\ Len(b.kids) = 1
            /\ IsBookColumns(b.kids[1])
            /\ b.kids[1].text = NoText
            /\ Len(b.kids[1].kids) = 1
            /\ IsBookInner(b.kids[1].kids[1])
            /\ b.kids[1].kids[1].text = o.text
            /\ b.kids[1].kids[1].kids = o.kids

C16_Witness ==
    /\ DivsAdded
    /\ last.before.body.text # NoText
    /\ Len(last.before.body.kids) >= 2
    /\ \E i \in 1..Len(last.before.body.kids) : last.before.body.kids[i].tail # NoText
    /\ IsBookColumns(After.body.kids[1])

---------------------------------------------------------------------------
(* Claims about text runs without a sentence boundary (SpecText) *)

\* no period, exclamation mark, question mark or colon in the run
HasNoBoundary(t) == t # NoText /\ \A i \in 1..Len(t) : t[i] \notin TerminalChars

\* C17 as stated: a text run without a sentence boundary is restored unmodified: the
\* call adds no span, the run stays the text of its node and the paragraph counter
\* does not advance
C17_NoBoundaryRestored ==
    (run.done /\ HasNoBoundary(run.text))
        => /\ run.ret = FALSE
           /\ run.kids = <<>>
           /\ RestoredText(run.text, run.ret) = run.text
           /\ Advance(run.p, run.ret) = run.p

\* C17 amended: a text run without a sentence boundary that is not empty and not only
\* whitespace is wrapped whole in the one span kobo.<p>.1, no plain text is left and
\* the paragraph counter advances by one; only an empty or whitespace-only run is
\* restored unmodified
C17_NoBoundaryOneSpan ==
    (run.done /\ HasNoBoundary(run.text))
        => IF IsBlank(run.text)
           THEN /\ run.ret = FALSE
                /\ run.kids = <<>>
                /\ RestoredText(run.text, run.ret) = run.text
                /\ Advance(run.p, run.ret) = run.p
           ELSE /\ run.ret = TRUE
                /\ Len(run.kids) = 1
                /\ run.kids[1].tag = "span"
                /\ run.kids[1].attrs = Attrs(KoboId(run.p, 1), "koboSpan")
                /\ run.kids[1].text = run.text
                /\ run.kids[1].kids = <<>>
                /\ RestoredText(run.text, run.ret) = NoText
                /\ Advance(run.p, run.ret) = run.p + 1

C17_Witness ==
    /\ run.done
    /\ run.text = Copyright
    /\ run.ret = TRUE
    /\ Len(run.kids) = 1
    /\ run.kids[1].text = Copyright

---------------------------------------------------------------------------
(* Claims about special elements, comments and the counter of a pass (Spec) *)

\* the special elements the injector reaches: it does not look inside comments,
\* skipped elements or special elements
RECURSIVE SpecialsReached(_)
SpecialsReached(n) ==
    IF n.kind # "elem" \/ IsSkipped(n) THEN <<>>
    ELSE IF IsSpecial(n) THEN <<n>>
    ELSE Concat([i \in 1..Len(n.kids) |-> SpecialsReached(n.kids[i])])

IsWrappingSpan(n) == IsKoboSpan(n) /\ n.kids # <<>>

\* C18: every special element (img) the injector reaches is wrapped, unchanged, in one
\* tracking span with segment index 1, and the paragraph counter advances by one for
\* it: the span created next has a greater paragraph index, and at the end of the pass
\* the counter has advanced once per sentence run and once per special element
C18_ImageAdvancesCounter ==
    SpansInjected
        => LET spans == SelectSeq(Descendants(After.body), IsKoboSpan)
               wrapping == SelectSeq(spans, IsWrappingSpan)
               specials == SpecialsReached(last.before.body)
           IN  /\ Len(wrapping) = Len(specials)
               /\ \A i \in 1..Len(wrapping) :
                      /\ wrapping[i].attrs.id.s = 1
                      /\ Len(wrapping[i].kids) = 1
                      /\ wrapping[i].kids[1] = [specials[i] EXCEPT !.tail = NoText]
               /\ \A i \in 1..(Len(spans) - 1) :
                      IsWrappingSpan(spans[i]) => spans[i + 1].attrs.id.p > spans[i].attrs.id.p
               /\ paragraph_counter[last.name]
                      = last.pBefore
                          + Len(SelectSeq(OfferedRuns(last.before.body), IsSentenceRun))
                          + Len(specials)

\* the text inside an element when the text that follows a comment or processing
\* instruction the injector reaches is left out
RECURSIVE TextWithoutCommentTails(_)
TextWithoutCommentTails(n) ==
    IF n.kind # "elem" THEN <<>>
    ELSE IF IsSkipped(n) \/ IsSpecial(n) THEN InnerText(n)
    ELSE TextSeq(n.text)
             \o Concat([i \in 1..Len(n.kids) |->
                    TextWithoutCommentTails(n.kids[i])
                        \o (IF n.kids[i].kind = "elem" THEN TextSeq(n.kids[i].tail) ELSE <<>>)])

IsCommentOrPI(n) == n.kind # "elem"

\* C19 as stated: span injection passes comments and processing instructions through
\* and discards the text that follows them: afterwards none of them has a tail and the
\* text inside body is the original text without those runs
C19_CommentTailDiscarded ==
    SpansInjected
        => /\ InnerText(After.body) = TextWithoutCommentTails(last.before.body)
           /\ \A i \in 1..Len(Descendants(After.body)) :
                  IsCommentOrPI(Descendants(After.body)[i])
                      => Descendants(After.body)[i].tail = NoText

\* the text of the childless tracking spans that directly follow position i - 1
RECURSIVE SpanTextsFrom(_, _)
SpanTextsFrom(kids, i) ==
    IF i <= Len(kids) /\ IsKoboSpan(kids[i]) /\ kids[i].kids = <<>>
    THEN TextSeq(kids[i].text) \o SpanTextsFrom(kids, i + 1)
    ELSE <<>>

\* every comment and processing instruction inside an element, in document order, with
\* its tail and the text of the tracking spans that directly follow it
RECURSIVE CommentTrails(_)
CommentTrails(n) ==
    IF n.kind # "elem" THEN <<>>
    ELSE Concat([i \in 1..Len(n.kids) |->
             (IF IsCommentOrPI(n.kids[i])
              THEN <<[kind |-> n.kids[i].kind, tail |-> n.kids[i].tail,
                      spans |-> SpanTextsFrom(n.kids, i + 1)]>>
              ELSE <<>>)
                 \o CommentTrails(n.kids[i])])

\* C19 amended: span injection passes comments and processing instructions through
\* and keeps the text that follows each of them: a run that holds a sentence becomes
\* the tracking spans placed directly after the node, with the same characters, and an
\* empty or whitespace-only run stays the node's tail
C19_CommentTailKept ==
    SpansInjected
        => LET b == CommentTrails(last.before.body)
               a == CommentTrails(After.body)
           IN  /\ Len(a) = Len(b)
               /\ \A i \in 1..Len(b) :
                      /\ a[i].kind = b[i].kind
                      /\ IF IsSentenceRun(b[i].tail)
                         THEN a[i].tail = NoText /\ a[i].spans = b[i].tail
                         ELSE a[i].tail = b[i].tail /\ a[i].spans = <<>>

C19_Witness ==
    /\ SpansInjected
    /\ \E i \in 1..Len(CommentTrails(last.before.body)) :
           /\ IsSentenceRun(CommentTrails(last.before.body)[i].tail)
           /\ CommentTrails(After.body)[i].spans = CommentTrails(last.before.body)[i].tail

\* C20: at the start of every span-injection pass over a document the document's
\* paragraph counter is 1, whatever ran on the container before
C20_CounterResetAtPassStart ==
    last.op = "add_kobo_spans" => last.pBefore = 1

---------------------------------------------------------------------------
(* Claims about the threads of a batch (SpecBatch) *)

IsRunning(th) == th.pc \notin {"none", "done", "failed"}

RunningWorkers == {n \in DOMAIN threads : IsRunning(threads[n])}

\* C21: no worker task of a batch starts worker threads of its own: a flush of the
\* cache from inside a running task fails instead of starting a thread per dirty member
C21_NoBatchInsideWorker ==
    \A n \in DOMAIN threads : threads[n].pc # "join" /\ threads[n].flushing = {}

\* a pool that is smaller than the archive's number of content documents
PoolBound == NumDocs - 1

\* C22: at every moment at most PoolBound worker tasks of the batch run at once,
\* also for an archive with more content documents than that
C22_BoundedPool == Cardinality(RunningWorkers) <= PoolBound

\* C23: while worker tasks of a batch run, no step writes the parsed cache, the dirty
\* set or a member's file: commits happen only after every task has finished
C23_NoWritesWhileTasksRun ==
    [][RunningWorkers # {} => (parsed' = parsed /\ dirtied' = dirtied /\ disk' = disk)]_vars

BatchStarts(func) == batch.func # func /\ batch'.func = func

---------------------------------------------------------------------------
(* Claims about the manifest and the cleanup of the constructor (SpecManifest) *)

\* C24: no two tasks of a batch that run at the same time work on the same content
\* document, whatever the manifest lists
C24_OneTaskPerDocument ==
    \A i \in DOMAIN threads : \A j \in DOMAIN threads :
        (i # j /\ IsRunning(threads[i]) /\ IsRunning(threads[j]))
            => threads[i].name # threads[j].name

\* the documents on which a forced_cleanup task has returned
Cleaned ==
    {threads[i].name : i \in {j \in DOMAIN threads : /\ threads[j].func = "forced_cleanup"
                                                       /\ threads[j].pc = "done"}}

\* C26: when a transform other than forced_cleanup is called on a document, forced_cleanup
\* has returned on every document that is a content document at that moment, also on
\* the documents copied into the container after it was opened
C26_CleanupBeforeTransforms ==
    last.op \in {"add_kobo_spans", "add_kobo_divs"} => names \subseteq Cleaned

---------------------------------------------------------------------------
(* Claims about the gates for reading statistics (SpecStats) *)

\* C27: whenever enable_stats holds, so that upload_books inserts the rows and
\* save_template gives the .kobo/kepub template, create_upload_path gives the path
\* under .kobo/kepub, for every database version
C27_StatsGatesAgree ==
    (/\ device.op = "stats"
     /\ device.upload_path # "unasked"
     /\ EnableStats(device.dbversion, device.reading_stats, device.extra_features))
        => device.upload_path = "kobo_kepub_uuid_path"

---------------------------------------------------------------------------
(* Claims about stripping the tracking spans (SpecStrip) *)

SpansStripped == last.op = "postprocess_book" /\ "strip_kobo_spans" \in last.opts

\* C28: stripping the tracking spans from a document that add_kobo_spans produced gives
\* back the content the document had before: the same text inside body in the same
\* order and the same elements that are not tracking spans, images included
C28_StripRestoresContent ==
    SpansStripped
        => /\ InnerText(After.body) = InnerText(last.before.body)
           /\ OtherNodes(After.body) = OtherNodes(last.before.body)

---------------------------------------------------------------------------
(* Claims about the set of books that are not renamed (SpecDevice) *)

\* C29: skip_renaming_files only grows: a uuid that is in the set stays in it through
\* every call of the driver, and every later filename_callback for that uuid and a path
\* ending in .epub returns the path as it is
C29_SkippedStaysSkipped ==
    [][device.op = "device"
          => \A u \in device.skip_renaming_files :
                 /\ u \in device'.skip_renaming_files
                 /\ (/\ device'.call.op = "filename_callback"
                     /\ device'.call.uuid = u
                     /\ EndsWith(device'.call.path, EPUB_EXT))
                        => device'.call.ret = device'.call.path]_vars

C29_Witness ==
    /\ device.op = "device"
    /\ device.call.op = "_modify_epub"
    /\ EndsWith(device.call.path, EPUB_EXT)
    /\ device.call.uuid \in device.call.skipBefore
    /\ device.call.skipBefore \subseteq device.skip_renaming_files
    /\ Cardinality(device.skip_renaming_files) > 1

---------------------------------------------------------------------------
(* Claims about the hyphenation options (SpecConfig) *)

\* C30: after construction and after every sequence of clicks on the two checkboxes the
\* hyphenation parameter fields are enabled exactly when 'Hyphenate Files' is checked
C30_FieldsFollowHyphenate ==
    device.op = "config"
        => device.widgets.fields_enabled = device.widgets.hyphenate_checkbox

===========================================================================
